---- MODULE Spec2Model ----
(***************************************************************************)
(* confd control plane: configuration resolution (config.go initConfig,    *)
(* processEnv), backend discovery (getBackendNodesFromSRV), the store      *)
(* client factory (backends.New) and the lifecycle orchestrator            *)
(* (confd.go main).                                                        *)
(*                                                                         *)
(* Node addresses and SRV targets are sequences of one-character strings,  *)
(* so that TrimRight / FormatUint / JoinHostPort are computed; every other *)
(* string field is a TLA+ string.                                          *)
(***************************************************************************)
EXTENDS Naturals, Sequences, FiniteSets, TLC

VARIABLES
  flags,       \* the command line as parsed by flag.Parse (has = flags given)
  config,      \* var config Config (config.go:39), the package global
  pc,          \* position of the main goroutine
  err,         \* value initConfig returns: "nil", "file" or "srv"
  ran,         \* steps of initConfig executed so far, in order
  file,        \* what os.Stat/ReadFile/toml.Decode found at config.ConfigFile
  env,         \* what os.Getenv returned for the three CONFD_CLIENT_* names
  keyring,     \* outcome of os.Open/ioutil.ReadAll on config.SecretKeyring
  srv,         \* what net.LookupSRV returned
  krOpen,      \* the keyring file handle kr is open
  client,      \* the argument copy backends.New worked on, and whether it built a client
  passes,      \* synchronous template.Process passes run by main
  pprofTask,   \* the pprof goroutine: "none", "running", "ended"
  proc,        \* processor goroutine: "none", "running", "done"
  procKind,    \* "none", "watch", "interval"
  stopClosed,  \* stopChan has been closed
  doneClosed,  \* doneChan has been closed
  acked,       \* the processor itself closed doneChan
  errChan,     \* buffered contents of errChan
  pending,     \* report the processor is blocked sending (0: none)
  sent,        \* reports the processor has produced so far
  logged,      \* reports main has logged, in order
  signalChan,  \* signals buffered in signalChan (capacity 1)
  signals,     \* termination signals the OS has delivered so far
  sigHandled,  \* signals the supervisory loop has received
  exitStatus,  \* process exit status once pc = "exited"
  exitBy       \* what ended the process

vars == <<flags, config, pc, err, ran, file, env, keyring, srv, krOpen, client,
          passes, pprofTask, proc, procKind, stopClosed, doneClosed, acked,
          errChan, pending, sent, logged, signalChan, signals, sigHandled,
          exitStatus, exitBy>>

resolveVars == <<flags, config, pc, err, ran, file, env, keyring, srv, krOpen,
                 exitStatus, exitBy>>

taskVars == <<client, passes, pprofTask, proc, procKind, stopClosed, doneClosed,
              acked, errChan, pending, sent, logged, signalChan, signals,
              sigHandled>>

(***************************************************************************)
(* Bounds of the model.                                                    *)
(***************************************************************************)
MaxFlags == 1        \* flags given explicitly, resolution runs
MaxFileFields == 2   \* fields the configuration file mentions
MaxSrv == 2          \* targets a lookup returns
MaxMainFlags == 2    \* flags given explicitly, whole-process runs
MaxReports == 12     \* error reports the processor produces
MaxSignals == 2      \* termination signals delivered

(***************************************************************************)
(* Program constants.                                                      *)
(***************************************************************************)
ErrChanCap == 10
SignalChanCap == 1
DefaultInterval == 600

(***************************************************************************)
(* Strings as character sequences: strings.TrimRight, strconv.FormatUint,  *)
(* net.JoinHostPort.                                                       *)
(***************************************************************************)
Digits == <<"0", "1", "2", "3", "4", "5", "6", "7", "8", "9">>

RECURSIVE FormatUint(_)
FormatUint(n) ==
  IF n < 10 THEN <<Digits[n + 1]>>
  ELSE FormatUint(n \div 10) \o <<Digits[(n % 10) + 1]>>

RECURSIVE TrimRightDot(_)
TrimRightDot(s) ==
  IF s = <<>> THEN s
  ELSE IF s[Len(s)] = "." THEN TrimRightDot(SubSeq(s, 1, Len(s) - 1))
  ELSE s

JoinHostPort(host, port) ==
  IF \E i \in 1..Len(host) : host[i] \in {":", "%"}
  THEN <<"[">> \o host \o <<"]", ":">> \o port
  ELSE host \o <<":">> \o port

\* filepath.Join(dir, name) for the cleaned directory names of the model.
PathJoin(dir, name) ==
  IF dir = "" THEN name
  ELSE IF dir = "/" THEN "/" \o name
  ELSE dir \o "/" \o name

DefaultNode == <<"1", "2", "7", ".", "0", ".", "0", ".", "1", ":", "2", "3", "7", "9">>
FlagNode == <<"f", ":", "1">>
FileNode == <<"g", ":", "2">>

(***************************************************************************)
(* The command line.  A flag set is the record of every flag-bound field   *)
(* of config after flag.Parse: the value given for the flags in has, the   *)
(* default of init() for the others.                                       *)
(***************************************************************************)
Opt(h, f, given, dflt) == IF f \in h THEN given ELSE {dflt}

FlagNames == {"Backend", "BackendNodes", "ClientCert", "SecretKeyring", "SRVDomain",
              "SRVRecord"}

DiscoveryNames == {"Backend", "BackendNodes", "ConfDir", "SRVDomain", "SRVRecord"}

MainFlagNames == {"PrintVersion", "PProf", "Watch", "OneTime", "SecretKeyring",
                  "SRVRecord"}

UpTo(names, n) == {h \in SUBSET names : Cardinality(h) <= n}

FlagSets(hs) ==
  UNION {[has : {h},
          Backend : Opt(h, "Backend", {"vault"}, "etcdv3"),
          BackendNodes : Opt(h, "BackendNodes", {<<FlagNode>>}, <<>>),
          ClientCaKeys : Opt(h, "ClientCaKeys", {"/flag/ca"}, ""),
          ClientCert : Opt(h, "ClientCert", {"/flag/cert"}, ""),
          ClientKey : Opt(h, "ClientKey", {"/flag/key"}, ""),
          ConfDir : Opt(h, "ConfDir", {"/flag"}, "/etc/confd"),
          Interval : Opt(h, "Interval", {5}, DefaultInterval),
          SecretKeyring : Opt(h, "SecretKeyring", {"/flag/kr"}, ""),
          SRVDomain : Opt(h, "SRVDomain", {"flag.org"}, ""),
          SRVRecord : Opt(h, "SRVRecord", {"_f._tcp.flag.org"}, ""),
          Watch : Opt(h, "Watch", {TRUE}, FALSE),
          OneTime : Opt(h, "OneTime", {TRUE}, FALSE),
          PrintVersion : Opt(h, "PrintVersion", {TRUE}, FALSE),
          PProf : Opt(h, "PProf", {TRUE}, FALSE)] : h \in hs}

\* config after init() and flag.Parse: flag values, zero values elsewhere.
FlagConfig(f) ==
  [Backend |-> f.Backend, BackendNodes |-> f.BackendNodes,
   ClientCaKeys |-> f.ClientCaKeys, ClientCert |-> f.ClientCert,
   ClientKey |-> f.ClientKey, ConfDir |-> f.ConfDir, Interval |-> f.Interval,
   SecretKeyring |-> f.SecretKeyring, SRVDomain |-> f.SRVDomain,
   SRVRecord |-> f.SRVRecord, Watch |-> f.Watch, OneTime |-> f.OneTime,
   PrintVersion |-> f.PrintVersion, PProf |-> f.PProf,
   ConfigFile |-> "/etc/confd/confd.toml", Scheme |-> "http", LogLevel |-> "",
   ConfigDir |-> "", TemplateDir |-> "", PGPPrivateKey |-> "",
   StoreClient |-> "nil", AuthToken |-> "", AuthType |-> "", BasicAuth |-> FALSE,
   Password |-> "", Table |-> "", Username |-> "", AppID |-> "", UserID |-> "",
   YAMLFile |-> <<>>, KeepStageFile |-> FALSE, Noop |-> FALSE, Prefix |-> "",
   SyncOnly |-> FALSE]

(***************************************************************************)
(* The configuration file.  A document is the set of fields it mentions    *)
(* (has) and the value it gives each; a field it does not mention carries  *)
(* a placeholder that the overlay never reads.                             *)
(***************************************************************************)
FileNames == {"Backend", "BackendNodes", "ClientCaKeys", "ClientCert", "ClientKey",
              "ConfDir", "SecretKeyring", "SRVDomain", "SRVRecord", "Watch"}

FileDocs(hs) ==
  UNION {[has : {h},
          Backend : Opt(h, "Backend", {"consul", ""}, ""),
          BackendNodes : Opt(h, "BackendNodes", {<<FileNode>>, <<>>}, <<>>),
          ClientCaKeys : Opt(h, "ClientCaKeys", {"/file/ca"}, ""),
          ClientCert : Opt(h, "ClientCert", {"/file/cert", ""}, ""),
          ClientKey : Opt(h, "ClientKey", {"/file/key"}, ""),
          ConfDir : Opt(h, "ConfDir", {"/file"}, ""),
          Interval : Opt(h, "Interval", {10}, 0),
          SecretKeyring : Opt(h, "SecretKeyring", {"/file/kr"}, ""),
          SRVDomain : Opt(h, "SRVDomain", {"example.com", ""}, ""),
          SRVRecord : Opt(h, "SRVRecord", {"_etcd-client._tcp.example.com", ""}, ""),
          Watch : Opt(h, "Watch", {FALSE}, FALSE)] : h \in hs}

NoDoc == CHOOSE d \in FileDocs({{}}) : TRUE

TomlDecodeFlagsWin(c, d) ==
  [f \in DOMAIN c |-> IF f \in d.has /\ f \notin flags.has THEN d[f] ELSE c[f]]

\* toml.Decode(string(configBytes), &config): every key of the document is
\* written to its field, every other field is left as it is.
TomlDecode(c, d) ==
  [f \in DOMAIN c |-> IF f \in d.has THEN d[f] ELSE c[f]]

(***************************************************************************)
(* The environment: the three variables processEnv reads.                  *)
(***************************************************************************)
Envs ==
  [CONFD_CLIENT_CAKEYS : {"", "/env/ca"},
   CONFD_CLIENT_CERT : {"", "/env/cert"},
   CONFD_CLIENT_KEY : {"", "/env/key"}]

NoEnv == [CONFD_CLIENT_CAKEYS |-> "", CONFD_CLIENT_CERT |-> "", CONFD_CLIENT_KEY |-> ""]

MainEnvs == {NoEnv, [NoEnv EXCEPT !.CONFD_CLIENT_CERT = "/env/cert"]}

processEnvNoGuard(c, e) ==
  [c EXCEPT
     !.ClientCaKeys = IF e.CONFD_CLIENT_CAKEYS # "" THEN e.CONFD_CLIENT_CAKEYS ELSE @,
     !.ClientCert = IF e.CONFD_CLIENT_CERT # "" THEN e.CONFD_CLIENT_CERT ELSE @,
     !.ClientKey = IF e.CONFD_CLIENT_KEY # "" THEN e.CONFD_CLIENT_KEY ELSE @]

processEnv(c, e) ==
  [c EXCEPT
     !.ClientCaKeys = IF e.CONFD_CLIENT_CAKEYS # "" /\ @ = ""
                      THEN e.CONFD_CLIENT_CAKEYS ELSE @,
     !.ClientCert = IF e.CONFD_CLIENT_CERT # "" /\ @ = ""
                    THEN e.CONFD_CLIENT_CERT ELSE @,
     !.ClientKey = IF e.CONFD_CLIENT_KEY # "" /\ @ = ""
                   THEN e.CONFD_CLIENT_KEY ELSE @]

(***************************************************************************)
(* Backend discovery.                                                      *)
(***************************************************************************)
SrvTargets ==
  {[Target |-> <<"a", ".">>, Port |-> 2379, Priority |-> 20],
   [Target |-> <<"b">>, Port |-> 80, Priority |-> 10]}

RECURSIVE SeqsUpTo(_, _)
SeqsUpTo(S, n) ==
  IF n = 0 THEN {<<>>}
  ELSE LET shorter == SeqsUpTo(S, n - 1)
       IN shorter \cup {Append(s, x) : s \in {t \in shorter : Len(t) = n - 1}, x \in S}

\* net.LookupSRV("", "", record): an error (possibly with some addresses,
\* which the caller must not use) or the resolver's ordered answer.
LookupResults(n) ==
  {[err |-> FALSE, addrs |-> s] : s \in SeqsUpTo(SrvTargets, n)}
    \cup {[err |-> TRUE, addrs |-> s] : s \in SeqsUpTo(SrvTargets, 1)}

NoLookup == [err |-> FALSE, addrs |-> <<>>]

SrvA == CHOOSE t \in SrvTargets : t.Port = 2379
SrvB == CHOOSE t \in SrvTargets : t.Port = 80

MainLookups ==
  {[err |-> TRUE, addrs |-> <<>>], [err |-> FALSE, addrs |-> <<SrvA>>]}

FewLookups ==
  {[err |-> TRUE, addrs |-> <<>>], [err |-> FALSE, addrs |-> <<>>],
   [err |-> FALSE, addrs |-> <<SrvA>>], [err |-> FALSE, addrs |-> <<SrvB, SrvA>>]}

Endpoint(t) == JoinHostPort(TrimRightDot(t.Target), FormatUint(t.Port))

RECURSIVE Endpoints(_)
Endpoints(addrs) ==
  IF addrs = <<>> THEN <<>>
  ELSE <<Endpoint(Head(addrs))>> \o Endpoints(Tail(addrs))

getBackendNodesFromSRVPartial(r) ==
  [nodes |-> Endpoints(r.addrs), err |-> r.err]

getBackendNodesFromSRV(r) ==
  IF r.err THEN [nodes |-> <<>>, err |-> TRUE]
  ELSE [nodes |-> Endpoints(r.addrs), err |-> FALSE]

(***************************************************************************)
(* Process exit.                                                           *)
(***************************************************************************)
\* os.Exit(code): the process ends at once; deferred calls do not run.
Exit(code, by) ==
  /\ pc' = "exited"
  /\ exitStatus' = code
  /\ exitBy' = by

\* log.Fatal(msg): logs and ends the process with a non-zero status.
Fatal == Exit(1, "log.Fatal")

\* An unrecovered runtime panic in any goroutine ends the process, status 2.
Panic(by) == Exit(2, by)

Alive == pc # "exited"

(***************************************************************************)
(* initConfig (config.go:79-138), one action per step.                     *)
(***************************************************************************)
\* os.Stat, ioutil.ReadFile and toml.Decode of config.ConfigFile.
LoadConfigFileErrIgnored(docs) ==
  /\ pc = "stat"
  /\ ran' = Append(ran, "file")
  /\ \/ /\ \E st \in {"absent", "unreadable", "malformed"} :
             file' = [state |-> st, doc |-> NoDoc]
        /\ pc' = "env"
        /\ UNCHANGED <<config, err>>
     \/ /\ \E d \in docs :
             /\ file' = [state |-> "ok", doc |-> d]
             /\ config' = TomlDecode(config, d)
        /\ pc' = "env"
        /\ UNCHANGED err
  /\ UNCHANGED <<flags, env, keyring, srv, krOpen, exitStatus, exitBy>>
  /\ UNCHANGED taskVars

LoadConfigFile(docs) ==
  /\ pc = "stat"
  /\ ran' = Append(ran, "file")
  /\ \/ /\ file' = [state |-> "absent", doc |-> NoDoc]
        /\ pc' = "env"
        /\ UNCHANGED <<config, err>>
     \/ /\ \E st \in {"unreadable", "malformed"} : file' = [state |-> st, doc |-> NoDoc]
        /\ pc' = "ret"
        /\ err' = "file"
        /\ UNCHANGED config
     \/ /\ \E d \in docs :
             /\ file' = [state |-> "ok", doc |-> d]
             /\ config' = TomlDecode(config, d)
        /\ pc' = "env"
        /\ UNCHANGED err
  /\ UNCHANGED <<flags, env, keyring, srv, krOpen, exitStatus, exitBy>>
  /\ UNCHANGED taskVars

\* processEnv().
ProcessEnvStep(envs) ==
  /\ pc = "env"
  /\ ran' = Append(ran, "env")
  /\ \E e \in envs :
       /\ env' = e
       /\ config' = processEnv(config, e)
  /\ pc' = "keyring"
  /\ UNCHANGED <<flags, err, file, keyring, srv, krOpen, exitStatus, exitBy>>
  /\ UNCHANGED taskVars

\* The secret keyring: os.Open, defer kr.Close(), ioutil.ReadAll.
LoadKeyring ==
  /\ pc = "keyring"
  /\ ran' = Append(ran, "keyring")
  /\ \/ /\ config.SecretKeyring = ""
        /\ pc' = "derive"
        /\ UNCHANGED <<config, keyring, krOpen, exitStatus, exitBy>>
     \/ /\ config.SecretKeyring # ""
        /\ keyring' = "openfail"
        /\ Fatal
        /\ UNCHANGED <<config, krOpen>>
     \/ /\ config.SecretKeyring # ""
        /\ keyring' = "readfail"
        /\ krOpen' = TRUE
        /\ Fatal
        /\ UNCHANGED config
     \/ /\ config.SecretKeyring # ""
        /\ keyring' = "ok"
        /\ krOpen' = TRUE
        /\ config' = [config EXCEPT !.PGPPrivateKey = "keys of " \o config.SecretKeyring]
        /\ pc' = "derive"
        /\ UNCHANGED <<exitStatus, exitBy>>
  /\ UNCHANGED <<flags, err, file, env, srv>>
  /\ UNCHANGED taskVars

\* fmt.Sprintf("_%s._tcp.%s.", config.Backend, config.SRVDomain)
SRVRecordFor(backend, domain) == "_" \o backend \o "._tcp." \o domain \o "."

deriveSRVRecordAlways(c) ==
  IF c.SRVDomain # ""
  THEN [c EXCEPT !.SRVRecord = SRVRecordFor(c.Backend, c.SRVDomain)]
  ELSE c

deriveSRVRecord(c) ==
  IF c.SRVDomain # "" /\ c.SRVRecord = ""
  THEN [c EXCEPT !.SRVRecord = SRVRecordFor(c.Backend, c.SRVDomain)]
  ELSE c

DeriveRecord ==
  /\ pc = "derive"
  /\ ran' = Append(ran, "derive")
  /\ config' = deriveSRVRecord(config)
  /\ pc' = "srv"
  /\ UNCHANGED <<flags, err, file, env, keyring, srv, krOpen, exitStatus, exitBy>>
  /\ UNCHANGED taskVars

replaceNodesMerging(c, g) == [c EXCEPT !.BackendNodes = @ \o g.nodes]

\* config.BackendNodes = srvNodes when the lookup returned no error.
replaceNodes(c, g) == [c EXCEPT !.BackendNodes = g.nodes]

\* Update BackendNodes from SRV records; an error returns, running the
\* deferred kr.Close().
Discover(results) ==
  /\ pc = "srv"
  /\ ran' = Append(ran, "srv")
  /\ \/ /\ config.SRVRecord = ""
        /\ pc' = "nodes"
        /\ UNCHANGED <<config, srv, err, krOpen>>
     \/ /\ config.SRVRecord # ""
        /\ \E r \in results :
             LET g == getBackendNodesFromSRV(r)
             IN /\ srv' = [looked |-> TRUE, err |-> r.err, addrs |-> r.addrs,
                           nodes |-> g.nodes]
                /\ IF g.err
                   THEN /\ err' = "srv"
                        /\ pc' = "ret"
                        /\ krOpen' = FALSE
                        /\ UNCHANGED config
                   ELSE /\ config' = replaceNodes(config, g)
                        /\ pc' = "nodes"
                        /\ UNCHANGED <<err, krOpen>>
  /\ UNCHANGED <<flags, file, env, keyring, exitStatus, exitBy>>
  /\ UNCHANGED taskVars

defaultNodesNever(c) == c

defaultNodes(c) ==
  IF Len(c.BackendNodes) = 0 THEN [c EXCEPT !.BackendNodes = <<DefaultNode>>] ELSE c

DefaultNodes ==
  /\ pc = "nodes"
  /\ ran' = Append(ran, "nodes")
  /\ config' = defaultNodes(config)
  /\ pc' = "dirs"
  /\ UNCHANGED <<flags, err, file, env, keyring, srv, krOpen, exitStatus, exitBy>>
  /\ UNCHANGED taskVars

deriveDirsFromFlags(c) ==
  [c EXCEPT !.ConfigDir = PathJoin(flags.ConfDir, "conf.d"),
            !.TemplateDir = PathJoin(flags.ConfDir, "templates")]

deriveDirs(c) ==
  [c EXCEPT !.ConfigDir = PathJoin(c.ConfDir, "conf.d"),
            !.TemplateDir = PathJoin(c.ConfDir, "templates")]

\* The two filepath.Join assignments and return nil (the deferred kr.Close() runs).
DeriveDirs ==
  /\ pc = "dirs"
  /\ ran' = Append(ran, "dirs")
  /\ config' = deriveDirs(config)
  /\ pc' = "ret"
  /\ err' = "nil"
  /\ krOpen' = FALSE
  /\ UNCHANGED <<flags, file, env, keyring, srv, exitStatus, exitBy>>
  /\ UNCHANGED taskVars

(***************************************************************************)
(* Resolution on its own: initConfig called on a parsed command line, as   *)
(* config_test.go calls it.                                                *)
(***************************************************************************)
InitWith(fs, start) ==
  /\ flags \in fs
  /\ config = FlagConfig(flags)
  /\ pc = start
  /\ err = "nil"
  /\ ran = <<>>
  /\ file = [state |-> "unread", doc |-> NoDoc]
  /\ env = NoEnv
  /\ keyring = "unused"
  /\ srv = [looked |-> FALSE, err |-> FALSE, addrs |-> <<>>, nodes |-> <<>>]
  /\ krOpen = FALSE
  /\ client = [made |-> FALSE, Backend |-> "", BackendNodes |-> <<>>]
  /\ passes = 0
  /\ pprofTask = "none"
  /\ proc = "none"
  /\ procKind = "none"
  /\ stopClosed = FALSE
  /\ doneClosed = FALSE
  /\ acked = FALSE
  /\ errChan = <<>>
  /\ pending = 0
  /\ sent = 0
  /\ logged = <<>>
  /\ signalChan = 0
  /\ signals = 0
  /\ sigHandled = 0
  /\ exitStatus = 0
  /\ exitBy = "none"

ResolveFlags == {f \in FlagSets(UpTo(FlagNames, MaxFlags)) : TRUE}
ResolveDocs == {d \in FileDocs(UpTo(FileNames, MaxFileFields)) : TRUE}
ResolveEnvs == {e \in Envs : TRUE}
ResolveLookups == {r \in FewLookups : TRUE}

InitResolve == InitWith(ResolveFlags, "stat")

NextResolve ==
  \/ LoadConfigFile(ResolveDocs)
  \/ ProcessEnvStep(ResolveEnvs)
  \/ LoadKeyring
  \/ DeriveRecord
  \/ Discover(ResolveLookups)
  \/ DefaultNodes
  \/ DeriveDirs

SpecResolve == InitResolve /\ [][NextResolve]_vars

\* Resolution with every lookup result, for the fields discovery reads and writes.
DiscoverFlags == {f \in FlagSets(UpTo(DiscoveryNames, MaxFlags)) : TRUE}
DiscoverDocs == {d \in FileDocs(UpTo(DiscoveryNames, MaxFileFields)) : TRUE}
DiscoverLookups == {r \in LookupResults(MaxSrv) : TRUE}

InitDiscover == InitWith(DiscoverFlags, "stat")

NextDiscover ==
  \/ LoadConfigFile(DiscoverDocs)
  \/ ProcessEnvStep({NoEnv})
  \/ LoadKeyring
  \/ DeriveRecord
  \/ Discover(DiscoverLookups)
  \/ DefaultNodes
  \/ DeriveDirs

SpecDiscover == InitDiscover /\ [][NextDiscover]_vars

Resolved == pc = "ret" /\ err = "nil"

(***************************************************************************)
(* main (confd.go:18-76).                                                  *)
(***************************************************************************)
\* flag.Parse() has run; -version prints and exits.
MainVersion ==
  /\ pc = "main"
  /\ IF config.PrintVersion
     THEN Exit(0, "os.Exit")
     ELSE pc' = "pprof" /\ UNCHANGED <<exitStatus, exitBy>>
  /\ UNCHANGED <<flags, config, err, ran, file, env, keyring, srv, krOpen>>
  /\ UNCHANGED taskVars

\* -pprof starts a goroutine serving localhost:6060.
MainPProf ==
  /\ pc = "pprof"
  /\ pprofTask' = IF config.PProf THEN "running" ELSE pprofTask
  /\ pc' = "stat"
  /\ UNCHANGED <<flags, config, err, ran, file, env, keyring, srv, krOpen,
                 exitStatus, exitBy>>
  /\ UNCHANGED <<client, passes, proc, procKind, stopClosed, doneClosed, acked,
                 errChan, pending, sent, logged, signalChan, signals, sigHandled>>

\* http.ListenAndServe returned: the goroutine logs the error and ends.
PProfEnds ==
  /\ Alive
  /\ pprofTask = "running"
  /\ pprofTask' = "ended"
  /\ UNCHANGED resolveVars
  /\ UNCHANGED <<client, passes, proc, procKind, stopClosed, doneClosed, acked,
                 errChan, pending, sent, logged, signalChan, signals, sigHandled>>

MainCheckInitIgnoringErr ==
  /\ pc = "ret"
  /\ pc' = "new"
  /\ UNCHANGED <<flags, config, err, ran, file, env, keyring, srv, krOpen,
                 exitStatus, exitBy>>
  /\ UNCHANGED taskVars

\* if err := initConfig(); err != nil { log.Fatal(err.Error()) }
MainCheckInit ==
  /\ pc = "ret"
  /\ IF err # "nil"
     THEN Fatal
     ELSE pc' = "new" /\ UNCHANGED <<exitStatus, exitBy>>
  /\ UNCHANGED <<flags, config, err, ran, file, env, keyring, srv, krOpen>>
  /\ UNCHANGED taskVars

\* backends.New works on a copy of config.BackendsConfig: the empty backend
\* kind is defaulted in the copy only.
New(c, ok) ==
  [made |-> ok,
   Backend |-> IF c.Backend = "" THEN "etcdv3" ELSE c.Backend,
   BackendNodes |-> c.BackendNodes]

\* storeClient, err := backends.New(config.BackendsConfig)
MainNew ==
  /\ pc = "new"
  /\ \/ /\ client' = New(config, TRUE)
        /\ pc' = "attach"
        /\ UNCHANGED <<exitStatus, exitBy>>
     \/ /\ client' = New(config, FALSE)
        /\ Fatal
  /\ UNCHANGED <<flags, config, err, ran, file, env, keyring, srv, krOpen>>
  /\ UNCHANGED <<passes, pprofTask, proc, procKind, stopClosed, doneClosed, acked,
                 errChan, pending, sent, logged, signalChan, signals, sigHandled>>

\* config.TemplateConfig.StoreClient = storeClient; if config.OneTime ...
MainAttachWatchWins ==
  /\ pc = "attach"
  /\ config' = [config EXCEPT !.StoreClient = "client"]
  /\ pc' = IF config.OneTime /\ ~config.Watch THEN "onetime" ELSE "spawn"
  /\ UNCHANGED <<flags, err, ran, file, env, keyring, srv, krOpen, exitStatus, exitBy>>
  /\ UNCHANGED taskVars

MainAttachSkipped ==
  /\ pc = "attach"
  /\ pc' = IF config.OneTime THEN "onetime" ELSE "spawn"
  /\ UNCHANGED <<flags, config, err, ran, file, env, keyring, srv, krOpen,
                 exitStatus, exitBy>>
  /\ UNCHANGED taskVars

MainAttach ==
  /\ pc = "attach"
  /\ config' = [config EXCEPT !.StoreClient = "client"]
  /\ pc' = IF config.OneTime THEN "onetime" ELSE "spawn"
  /\ UNCHANGED <<flags, err, ran, file, env, keyring, srv, krOpen, exitStatus, exitBy>>
  /\ UNCHANGED taskVars

\* One-time mode: template.Process on the calling goroutine, then exit.
MainOneTime ==
  /\ pc = "onetime"
  /\ passes' = passes + 1
  /\ \/ Exit(0, "os.Exit")
     \/ Fatal
  /\ UNCHANGED <<flags, config, err, ran, file, env, keyring, srv, krOpen>>
  /\ UNCHANGED <<client, pprofTask, proc, procKind, stopClosed, doneClosed, acked,
                 errChan, pending, sent, logged, signalChan, signals, sigHandled>>

\* Continuous mode: the three channels are made, the processor is chosen by
\* config.Watch and started, and SIGINT/SIGTERM are routed to signalChan.
MainSpawn ==
  /\ pc = "spawn"
  /\ procKind' = IF config.Watch THEN "watch" ELSE "interval"
  /\ proc' = "running"
  /\ pc' = "select"
  /\ UNCHANGED <<flags, config, err, ran, file, env, keyring, srv, krOpen,
                 exitStatus, exitBy>>
  /\ UNCHANGED <<client, passes, pprofTask, stopClosed, doneClosed, acked, errChan,
                 pending, sent, logged, signalChan, signals, sigHandled>>

\* case err := <-errChan: log.Error(err.Error())
SelectErr ==
  /\ pc = "select"
  /\ errChan # <<>>
  /\ logged' = Append(logged, Head(errChan))
  /\ errChan' = Tail(errChan)
  /\ UNCHANGED resolveVars
  /\ UNCHANGED <<client, passes, pprofTask, proc, procKind, stopClosed, doneClosed,
                 acked, pending, sent, signalChan, signals, sigHandled>>

\* case s := <-signalChan: log.Info(...); close(doneChan)
\* Closing a closed channel panics.
SelectSignal ==
  /\ pc = "select"
  /\ signalChan > 0
  /\ signalChan' = signalChan - 1
  /\ sigHandled' = sigHandled + 1
  /\ IF doneClosed
     THEN Panic("panic:main") /\ UNCHANGED doneClosed
     ELSE doneClosed' = TRUE /\ UNCHANGED <<pc, exitStatus, exitBy>>
  /\ UNCHANGED <<flags, config, err, ran, file, env, keyring, srv, krOpen>>
  /\ UNCHANGED <<client, passes, pprofTask, proc, procKind, stopClosed, acked,
                 errChan, pending, sent, logged, signals>>

\* case <-doneChan: os.Exit(0).  A receive from doneChan is ready once the
\* channel is closed.
SelectDone ==
  /\ pc = "select"
  /\ doneClosed
  /\ Exit(0, "os.Exit")
  /\ UNCHANGED <<flags, config, err, ran, file, env, keyring, srv, krOpen>>
  /\ UNCHANGED taskVars

\* The OS delivers SIGINT or SIGTERM after signal.Notify: the runtime does a
\* non-blocking send to signalChan, dropping the signal when the buffer is full.
SignalArrives ==
  /\ pc = "select"
  /\ signals < MaxSignals
  /\ signals' = signals + 1
  /\ signalChan' = IF signalChan < SignalChanCap THEN signalChan + 1 ELSE signalChan
  /\ UNCHANGED resolveVars
  /\ UNCHANGED <<client, passes, pprofTask, proc, procKind, stopClosed, doneClosed,
                 acked, errChan, pending, sent, logged, sigHandled>>

(***************************************************************************)
(* The processor task (template.WatchProcessor / IntervalProcessor): it    *)
(* reports errors on errChan and acknowledges completion on doneChan.      *)
(***************************************************************************)
ChanHasRoomAlways(ch) == TRUE

\* errChan := make(chan error, 10): a send proceeds only while the buffer
\* holds fewer than 10 values.
ChanHasRoom(ch) == Len(ch) < ErrChanCap

\* The processor has an error to report and starts the send.
ProcReport ==
  /\ Alive
  /\ proc = "running"
  /\ pending = 0
  /\ sent < MaxReports
  /\ sent' = sent + 1
  /\ pending' = sent + 1
  /\ UNCHANGED resolveVars
  /\ UNCHANGED <<client, passes, pprofTask, proc, procKind, stopClosed, doneClosed,
                 acked, errChan, logged, signalChan, signals, sigHandled>>

\* The send completes once the buffer has room.
ProcSend ==
  /\ Alive
  /\ proc = "running"
  /\ pending # 0
  /\ ChanHasRoom(errChan)
  /\ errChan' = Append(errChan, pending)
  /\ pending' = 0
  /\ UNCHANGED resolveVars
  /\ UNCHANGED <<client, passes, pprofTask, proc, procKind, stopClosed, doneClosed,
                 acked, sent, logged, signalChan, signals, sigHandled>>

\* Process() returns and acknowledges completion by closing doneChan.
ProcDone ==
  /\ Alive
  /\ proc = "running"
  /\ pending = 0
  /\ proc' = "done"
  /\ IF doneClosed
     THEN Panic("panic:processor") /\ UNCHANGED <<doneClosed, acked>>
     ELSE doneClosed' = TRUE /\ acked' = TRUE /\ UNCHANGED <<pc, exitStatus, exitBy>>
  /\ UNCHANGED <<flags, config, err, ran, file, env, keyring, srv, krOpen>>
  /\ UNCHANGED <<client, passes, pprofTask, procKind, stopClosed, errChan, pending,
                 sent, logged, signalChan, signals, sigHandled>>

(***************************************************************************)
(* The whole process.                                                      *)
(***************************************************************************)
MainFlags == {f \in FlagSets(UpTo(MainFlagNames, MaxMainFlags)) : TRUE}
MainDocs == {d \in FileDocs(UpTo({"Watch", "Interval"}, 1)) : TRUE}

Init == InitWith(MainFlags, "main")

Next ==
  \/ MainVersion
  \/ MainPProf
  \/ PProfEnds
  \/ LoadConfigFile(MainDocs)
  \/ ProcessEnvStep(MainEnvs)
  \/ LoadKeyring
  \/ DeriveRecord
  \/ Discover(MainLookups)
  \/ DefaultNodes
  \/ DeriveDirs
  \/ MainCheckInit
  \/ MainNew
  \/ MainAttach
  \/ MainOneTime
  \/ MainSpawn
  \/ SelectErr
  \/ SelectSignal
  \/ SelectDone
  \/ SignalArrives
  \/ ProcReport
  \/ ProcSend
  \/ ProcDone

Spec == Init /\ [][Next]_vars

(***************************************************************************)
(* Properties of the lifecycle.                                            *)
(***************************************************************************)
Continuous == proc # "none"

\* C1: whenever the supervisory loop has received a termination signal, the
\* stop channel has been closed, and the request was made on no other
\* channel (doneChan is closed only by the processor's acknowledgment).
C1_SignalClosesStop ==
  sigHandled > 0 => (stopClosed /\ (doneClosed => acked))

\* C2: in continuous mode the process exits with status 0 only after the
\* processor task itself has acknowledged completion.
C2_ExitOnlyAfterAck ==
  (Continuous /\ pc = "exited" /\ exitStatus = 0) => acked

\* C3: error reports never halt the orchestrator: every report taken from the
\* queue is logged and the loop goes on, and whenever the supervisory loop
\* ends the process the exit status is 0.
C3_ErrorsNeverHalt ==
  /\ Len(logged) + Len(errChan) + (IF pending # 0 THEN 1 ELSE 0) = sent
  /\ (Continuous /\ pc = "exited" /\ exitBy # "panic:processor") => exitStatus = 0

\* C4: the error queue never holds more than 10 reports, a send completes
\* only from a state where it holds fewer than 10, and a send attempted while
\* it holds 10 stays pending until the loop has drained a report.
C4_BoundedQueue ==
  /\ [](Len(errChan) <= 10)
  /\ [][/\ Len(errChan') > Len(errChan) => Len(errChan) < 10
        /\ (pending # 0 /\ Len(errChan) = 10) => pending' = pending]_vars

\* The 11th report is blocked behind ten undrained ones.
C4_Witness ==
  /\ Len(errChan) = 10 /\ pending = 11 /\ logged = <<>>
  /\ pc = "select" /\ proc = "running"

\* C5: reports are logged in the order sent, and the process never exits
\* from the supervisory loop while accepted reports are still in the queue.
C5_NoReportLost ==
  /\ \A i \in 1..Len(logged) : logged[i] = i
  /\ (Continuous /\ pc = "exited" /\ exitBy = "os.Exit") => errChan = <<>>

\* C6: a startup failure (configuration file unreadable or malformed, keyring
\* not opened or not read, lookup failed) ends resolution at that step, the
\* process is aborting or has aborted with a non-zero status, and no store
\* client was built, no pass ran and no processor was started.
C6_StartupFailuresTerminal ==
  LET fileFail == file.state \in {"unreadable", "malformed"}
      krFail == keyring \in {"openfail", "readfail"}
      srvFail == srv.looked /\ srv.err
  IN  /\ (fileFail \/ krFail \/ srvFail) =>
           /\ \/ pc = "ret" /\ err # "nil"
              \/ pc = "exited" /\ exitStatus # 0
           /\ ~client.made /\ config.StoreClient = "nil"
           /\ passes = 0 /\ proc = "none" /\ procKind = "none"
      /\ fileFail => ran = <<"file">>
      /\ krFail => ran = <<"file", "env", "keyring">>
      /\ srvFail => ran = <<"file", "env", "keyring", "derive", "srv">>

\* A failed lookup has aborted the process with status 1.
C6_Witness ==
  /\ srv.looked /\ srv.err
  /\ pc = "exited" /\ exitStatus = 1 /\ exitBy = "log.Fatal"

(***************************************************************************)
(* Properties of the resolution.                                           *)
(***************************************************************************)
Ran(step) == \E i \in 1..Len(ran) : ran[i] = step

TLSFields == {"ClientCaKeys", "ClientCert", "ClientKey"}

EnvOf(f) ==
  CASE f = "ClientCaKeys" -> env.CONFD_CLIENT_CAKEYS
    [] f = "ClientCert" -> env.CONFD_CLIENT_CERT
    [] f = "ClientKey" -> env.CONFD_CLIENT_KEY

\* The configuration as it stands after the flag and file steps.
AfterFile ==
  IF file.state = "ok" THEN TomlDecode(FlagConfig(flags), file.doc) ELSE FlagConfig(flags)

LookupNodes == Endpoints(srv.addrs)

C8_NodesAreLookupResult ==
  (Resolved /\ config.SRVRecord # "") =>
    /\ srv.looked /\ ~srv.err
    /\ config.BackendNodes = LookupNodes

\* C8 amended: when a service record is set and its lookup succeeds with at
\* least one endpoint, the resolved node list is exactly the lookup's
\* endpoints in order, whatever nodes were configured before; when the lookup
\* succeeds with no endpoint the resolved list is the single default node.
C8_NodesReplaced ==
  /\ (Resolved /\ config.SRVRecord # "") =>
       /\ srv.looked /\ ~srv.err
       /\ config.BackendNodes =
            IF LookupNodes = <<>> THEN <<DefaultNode>> ELSE LookupNodes
  /\ (pc = "nodes" /\ config.SRVRecord # "") => config.BackendNodes = LookupNodes

\* Two different endpoints replaced a node given on the command line.
C8_Witness ==
  /\ Resolved /\ srv.looked
  /\ flags.BackendNodes = <<FlagNode>> /\ "BackendNodes" \notin file.doc.has
  /\ Len(srv.addrs) = 2 /\ srv.addrs[1] # srv.addrs[2]
  /\ config.BackendNodes = <<<<"a", ":", "2", "3", "7", "9">>, <<"b", ":", "8", "0">>>>

C10_RecordDerivation ==
  Ran("derive") =>
    /\ (AfterFile.SRVDomain # "" /\ AfterFile.SRVRecord = "") =>
         config.SRVRecord =
           "_" \o AfterFile.Backend \o "._tcp." \o AfterFile.SRVDomain \o "."
    /\ (AfterFile.Backend = "consul" /\ AfterFile.SRVDomain = "example.com"
          /\ AfterFile.SRVRecord = "") =>
         config.SRVRecord = "_consul._tcp.example.com."
    /\ AfterFile.SRVRecord # "" => config.SRVRecord = AfterFile.SRVRecord
    /\ AfterFile.SRVDomain = "" => config.SRVRecord = AfterFile.SRVRecord

\* The record of the spec's example was derived from file values.
C10_Witness ==
  /\ Ran("derive")
  /\ file.state = "ok" /\ file.doc.has = {"Backend", "SRVDomain"}
  /\ flags.has = {"Backend"}
  /\ config.SRVRecord = "_consul._tcp.example.com."

C12_BackendAndNodesSet ==
  Resolved => (config.Backend # "" /\ config.BackendNodes # <<>>)

\* Goroutines of the live process: main, the processor, the pprof server.
MainAndProcessor ==
  IF Alive THEN (IF proc = "running" THEN 2 ELSE 1) ELSE 0

ActiveTasks ==
  MainAndProcessor + (IF Alive /\ pprofTask = "running" THEN 1 ELSE 0)

\* The mode follows the resolved OneTime and Watch fields: one-time mode
\* makes one pass on the calling goroutine, starts no processor and never
\* reaches the select loop, and ends by os.Exit(0) or log.Fatal; continuous
\* mode makes no pass and starts the watch processor exactly when Watch is
\* set, the interval processor otherwise.
C13_Mode ==
  /\ passes <= 1
  /\ passes = 1 => (config.OneTime /\ pc = "exited"
                    /\ \/ exitStatus = 0 /\ exitBy = "os.Exit"
                       \/ exitStatus = 1 /\ exitBy = "log.Fatal")
  /\ config.OneTime => (proc = "none" /\ procKind = "none"
                        /\ pc \notin {"spawn", "select"})
  /\ pc = "onetime" => config.OneTime
  /\ pc \in {"spawn", "select"} => ~config.OneTime
  /\ pc = "select" => proc # "none"
  /\ proc # "none" =>
       /\ ~config.OneTime /\ passes = 0
       /\ procKind = (IF config.Watch THEN "watch" ELSE "interval")

\* The processor is started from the not-started state only, its strategy
\* never changes once chosen, and a pass is never undone.
C13_ModeStep ==
  /\ (proc' = "running" /\ proc # "running") => proc = "none"
  /\ procKind # "none" => procKind' = procKind
  /\ passes' >= passes

C14_ConfigFrozenAfterLaunch ==
  /\ [](proc # "none" =>
          (config.StoreClient = "client" /\ Ran("dirs") /\ err = "nil"))
  /\ [][proc # "none" => config' = config]_vars

\* The loop has served an error and a signal while the processor runs.
C14_Witness ==
  /\ proc = "running" /\ logged # <<>> /\ sigHandled > 0
  /\ config.StoreClient = "client"

C16_FileOnlyIfPresent ==
  /\ file.state = "absent" => err # "file"
  /\ (file.state = "absent" /\ pc = "env") =>
       (config = FlagConfig(flags) /\ err = "nil" /\ ran = <<"file">>)
  /\ file.state \in {"unreadable", "malformed"} =>
       /\ pc = "ret" /\ err = "file" /\ ran = <<"file">>
       /\ keyring = "unused" /\ ~krOpen /\ ~srv.looked
       /\ config.PGPPrivateKey = "" /\ config.SRVRecord = flags.SRVRecord
       /\ config.BackendNodes = flags.BackendNodes
       /\ config.ClientCert = flags.ClientCert
       /\ config.ConfigDir = "" /\ config.TemplateDir = ""

\* A malformed file with -srv-domain given: initConfig has returned the
\* error and no record was derived.
C16_Witness ==
  /\ file.state = "malformed" /\ pc = "ret" /\ err = "file"
  /\ flags.SRVDomain # "" /\ config.SRVRecord = ""

\* C17: the keyring file handle is released before resolution goes on: it
\* is never open while the record derivation, the lookup, the node
\* defaulting or the directory derivation run, nor when the process exits.
C17_KeyringHandleScoped ==
  /\ pc \in {"derive", "srv", "nodes", "dirs"} => ~krOpen
  /\ pc = "exited" => ~krOpen

\* The host of an SRV target: the target without its trailing dot.
C18_Host(t) ==
  IF t.Target # <<>> /\ t.Target[Len(t.Target)] = "."
  THEN SubSeq(t.Target, 1, Len(t.Target) - 1)
  ELSE t.Target

C18_Port(t) ==
  CASE t.Port = 2379 -> <<"2", "3", "7", "9">>
    [] t.Port = 80 -> <<"8", "0">>

\* C18: a successful lookup of n targets yields exactly n endpoints, the
\* i-th being the i-th target's host, trailing dot removed, joined by ":"
\* with its port, in the order returned and with duplicates kept; a failed
\* lookup yields the error and no endpoint.
C18_DiscoveryOrderAllOrNothing ==
  srv.looked =>
    IF srv.err
    THEN srv.nodes = <<>> /\ pc = "ret" /\ err = "srv"
    ELSE /\ Len(srv.nodes) = Len(srv.addrs)
         /\ \A i \in 1..Len(srv.addrs) :
              srv.nodes[i] = C18_Host(srv.addrs[i]) \o <<":">> \o C18_Port(srv.addrs[i])

\* Two targets, the first with the larger priority value: order is kept.
C18_Witness ==
  /\ srv.looked /\ ~srv.err
  /\ srv.addrs = <<SrvA, SrvB>> /\ SrvA.Priority > SrvB.Priority
  /\ srv.nodes = << <<"a", ":", "2", "3", "7", "9">>, <<"b", ":", "8", "0">> >>

\* C19: doneChan is closed at most once.  Stated for the closes main makes
\* on its own, while the processor is still running and has closed nothing:
\* main never panics on a second close, however many signals arrive.
C19_DoneClosedOnce ==
  proc = "running" => exitBy # "panic:main"

\* C20: once the loop has received a termination signal the process exits
\* with status 0, even if the processor keeps running and reporting and
\* further signals arrive.  An exit is final, so every exit that follows a
\* received signal must be the one with status 0.
C20_ShutdownExitsZero ==
  (sigHandled > 0 /\ proc = "running" /\ pc = "exited") => exitStatus = 0

====
